---- MODULE Spec2Model ----
(***************************************************************************)
(* Live client migration (charybdis-migrate): the output gate              *)
(* migrate_skip_output of src/ircd/migrate.c, the Migration record of      *)
(* src/include/migrate.h, and the flip / acknowledgement protocol the      *)
(* header describes.                                                       *)
(***************************************************************************)
EXTENDS Integers, Sequences, FiniteSets, TLC

\* ------------------------------------------------------------------ bounds
\* Number of server nodes of the trees the output gate is evaluated on.
GateNodes == 5

\* Number of server nodes of the trees the flip protocol runs on.
NetNodes == 3

\* Number of ordinary messages relayed through the tree during one migration.
MaxMsgs == 1

\* Number of clients the migration registry is exercised with.
NumClients == 2

\* Largest token value drawn; tokens are 32-bit in the program.
MaxToken == 1

\* Number of server nodes of the tree the registry is exercised on.
RegNodes == 2

\* ------------------------------------------------------------ the program
VARIABLES
    servptr,      \* struct Client.servptr of every server: its parent link
    migs,         \* the allocated struct Migration records, by address
    cmig,         \* struct Client.migration of every client (NULL or address)
    myConnect,    \* MyConnect(client): the client has a local connection
    ret,          \* what the last call of migrate_skip_output returned
    args,         \* the arguments of that call
    state,        \* lifecycle state of the migration on OLD
    chan,         \* the messages in flight on every directed server link
    flipSeen,     \* the servers that have processed the flip
    acked,        \* the servers whose flip acknowledgement OLD has received
    msgs          \* per ordinary message: origin, OLD's verdict, who saw it when

gateVars == <<servptr, migs, cmig, myConnect, ret, args>>

netVars == <<state, chan, flipSeen, acked, msgs>>

vars == <<servptr, migs, cmig, myConnect, ret, args,
          state, chan, flipSeen, acked, msgs>>

\* The null pointer.
NULL == -1

\* &me: the local server; its servptr is itself.
me == 0

\* The client whose migration the gate is asked about.
Target == 1

\* "No call yet" for ret and args.
NoCall == <<>>

\* The servers of a tree of n nodes.
NodesOf(n) == 0 .. (n - 1)

\* Every tree on n servers rooted at the local server, up to renaming: each
\* server's parent link points to a server nearer the local server.
TreesOf(n) ==
    { f \in [NodesOf(n) -> NodesOf(n)] :
         /\ f[me] = me
         /\ \A x \in NodesOf(n) \ {me} : f[x] < x }

\* A struct Migration.
MigrationRec(c, d, fa, rt, ct) ==
    [client_p |-> c, destination_p |-> d, furthest_ack_p |-> fa,
     resume_token |-> rt, confirm_token |-> ct]

\* The servers met on the parent walk from n up to the local server, both
\* included: for the destination this is the direct path.
RECURSIVE PathToMe(_)
PathToMe(n) == IF n = me THEN {me} ELSE {n} \cup PathToMe(servptr[n])

\* The number of hops from n to the local server.
RECURSIVE Depth(_)
Depth(n) == IF n = me THEN 0 ELSE 1 + Depth(servptr[n])

\* Mutant: step 1 stops on furthest_ack_p itself instead of on its child.
RECURSIVE FindNextAck_StopsAtAck(_, _)
FindNextAck_StopsAtAck(next_ack_p, furthest_ack_p) ==
    IF next_ack_p = me THEN NULL
    ELSE IF next_ack_p = furthest_ack_p THEN next_ack_p
    ELSE FindNextAck_StopsAtAck(servptr[next_ack_p], furthest_ack_p)

\* Step 1 of migrate_skip_output: walk from the destination toward &me until
\* the node whose servptr is furthest_ack_p; NULL stands for the early
\* "return false" taken when the walk reaches &me.
RECURSIVE FindNextAck(_, _)
FindNextAck(next_ack_p, furthest_ack_p) ==
    IF next_ack_p = me THEN NULL
    ELSE IF servptr[next_ack_p] = furthest_ack_p THEN next_ack_p
    ELSE FindNextAck(servptr[next_ack_p], furthest_ack_p)

\* Mutant: step 2 stops one node early, on the child of &me.
RECURSIVE SourcePassesNot_StopsAtChild(_, _)
SourcePassesNot_StopsAtChild(cursor_p, next_ack_p) ==
    IF cursor_p = me \/ servptr[cursor_p] = me THEN TRUE
    ELSE IF cursor_p = next_ack_p THEN FALSE
    ELSE SourcePassesNot_StopsAtChild(servptr[cursor_p], next_ack_p)

\* Mutant: step 2 returns its two results the wrong way round.
RECURSIVE SourcePassesNot_Inverted(_, _)
SourcePassesNot_Inverted(cursor_p, next_ack_p) ==
    IF cursor_p = me THEN FALSE
    ELSE IF cursor_p = next_ack_p THEN TRUE
    ELSE SourcePassesNot_Inverted(servptr[cursor_p], next_ack_p)

\* Step 2 of migrate_skip_output: walk from source_p toward &me; FALSE when
\* next_ack_p is met, TRUE when &me is reached first.
RECURSIVE SourcePassesNot(_, _)
SourcePassesNot(cursor_p, next_ack_p) ==
    IF cursor_p = me THEN TRUE
    ELSE IF cursor_p = next_ack_p THEN FALSE
    ELSE SourcePassesNot(servptr[cursor_p], next_ack_p)

\* Mutant: the loop of step 1 without its test for &me.
RECURSIVE Step1Iterations_NoMeCheck(_, _, _)
Step1Iterations_NoMeCheck(next_ack_p, furthest_ack_p, fuel) ==
    IF fuel = 0 THEN NULL
    ELSE IF servptr[next_ack_p] = furthest_ack_p THEN 1
    ELSE LET r == Step1Iterations_NoMeCheck(servptr[next_ack_p],
                                            furthest_ack_p, fuel - 1)
         IN IF r = NULL THEN NULL ELSE r + 1

\* The number of nodes the loop of step 1 visits before it is left (by the
\* return at &me or by the break at the child of furthest_ack_p); NULL if it
\* is still running after fuel nodes.
RECURSIVE Step1Iterations(_, _, _)
Step1Iterations(next_ack_p, furthest_ack_p, fuel) ==
    IF fuel = 0 THEN NULL
    ELSE IF next_ack_p = me THEN 1
    ELSE IF servptr[next_ack_p] = furthest_ack_p THEN 1
    ELSE LET r == Step1Iterations(servptr[next_ack_p], furthest_ack_p, fuel - 1)
         IN IF r = NULL THEN NULL ELSE r + 1

\* The number of times the body of the loop of step 2 runs before the loop
\* is left (at &me or by the return at next_ack_p); NULL if it is still
\* running after fuel rounds.
RECURSIVE Step2Iterations(_, _, _)
Step2Iterations(cursor_p, next_ack_p, fuel) ==
    IF cursor_p = me THEN 0
    ELSE IF fuel = 0 THEN NULL
    ELSE IF cursor_p = next_ack_p THEN 1
    ELSE LET r == Step2Iterations(servptr[cursor_p], next_ack_p, fuel - 1)
         IN IF r = NULL THEN NULL ELSE r + 1

\* Mutants of migrate_skip_output: the bugs the properties below must catch.
migrate_skip_output_NoMigSkips(target_p, source_p) ==
    IF target_p = NULL \/ source_p = NULL THEN FALSE
    ELSE IF cmig[target_p] = NULL THEN TRUE
    ELSE LET mig == migs[cmig[target_p]] IN
         IF mig.destination_p = me THEN ~myConnect[target_p]
         ELSE IF mig.furthest_ack_p = NULL THEN FALSE
         ELSE IF mig.furthest_ack_p = mig.destination_p THEN TRUE
         ELSE LET next_ack_p == FindNextAck(mig.destination_p, mig.furthest_ack_p) IN
              IF next_ack_p = NULL THEN FALSE
              ELSE SourcePassesNot(source_p, next_ack_p)

migrate_skip_output_NoTerminalCheck(target_p, source_p) ==
    IF target_p = NULL \/ source_p = NULL THEN FALSE
    ELSE IF cmig[target_p] = NULL THEN FALSE
    ELSE LET mig == migs[cmig[target_p]] IN
         IF mig.destination_p = me THEN ~myConnect[target_p]
         ELSE IF mig.furthest_ack_p = NULL THEN FALSE
         ELSE LET next_ack_p == FindNextAck(mig.destination_p, mig.furthest_ack_p) IN
              IF next_ack_p = NULL THEN FALSE
              ELSE SourcePassesNot(source_p, next_ack_p)

migrate_skip_output_AckMeProduces(target_p, source_p) ==
    IF target_p = NULL \/ source_p = NULL THEN FALSE
    ELSE IF cmig[target_p] = NULL THEN FALSE
    ELSE LET mig == migs[cmig[target_p]] IN
         IF mig.destination_p = me THEN ~myConnect[target_p]
         ELSE IF mig.furthest_ack_p = NULL \/ mig.furthest_ack_p = me THEN FALSE
         ELSE IF mig.furthest_ack_p = mig.destination_p THEN TRUE
         ELSE LET next_ack_p == FindNextAck(mig.destination_p, mig.furthest_ack_p) IN
              IF next_ack_p = NULL THEN FALSE
              ELSE SourcePassesNot(source_p, next_ack_p)

migrate_skip_output_InboundInverted(target_p, source_p) ==
    IF target_p = NULL \/ source_p = NULL THEN FALSE
    ELSE IF cmig[target_p] = NULL THEN FALSE
    ELSE LET mig == migs[cmig[target_p]] IN
         IF mig.destination_p = me THEN myConnect[target_p]
         ELSE IF mig.furthest_ack_p = NULL THEN FALSE
         ELSE IF mig.furthest_ack_p = mig.destination_p THEN TRUE
         ELSE LET next_ack_p == FindNextAck(mig.destination_p, mig.furthest_ack_p) IN
              IF next_ack_p = NULL THEN FALSE
              ELSE SourcePassesNot(source_p, next_ack_p)

migrate_skip_output_LogicErrorSkips(target_p, source_p) ==
    IF target_p = NULL \/ source_p = NULL THEN FALSE
    ELSE IF cmig[target_p] = NULL THEN FALSE
    ELSE LET mig == migs[cmig[target_p]] IN
         IF mig.destination_p = me THEN ~myConnect[target_p]
         ELSE IF mig.furthest_ack_p = NULL THEN FALSE
         ELSE IF mig.furthest_ack_p = mig.destination_p THEN TRUE
         ELSE LET next_ack_p == FindNextAck(mig.destination_p, mig.furthest_ack_p) IN
              IF next_ack_p = NULL THEN TRUE
              ELSE SourcePassesNot(source_p, next_ack_p)

\* Mutant: the general case looks at the acknowledgement status of the
\* server that generated the message instead of the direct path.
migrate_skip_output_AckOfSource(target_p, source_p) ==
    IF target_p = NULL \/ source_p = NULL THEN FALSE
    ELSE IF cmig[target_p] = NULL THEN FALSE
    ELSE LET mig == migs[cmig[target_p]] IN
         IF mig.destination_p = me THEN ~myConnect[target_p]
         ELSE IF mig.furthest_ack_p = NULL THEN FALSE
         ELSE IF mig.furthest_ack_p = mig.destination_p THEN TRUE
         ELSE source_p \in acked

\* bool migrate_skip_output(struct Client *target_p, struct Client *source_p)
migrate_skip_output(target_p, source_p) ==
    IF target_p = NULL \/ source_p = NULL THEN FALSE
    ELSE IF cmig[target_p] = NULL THEN FALSE
    ELSE LET mig == migs[cmig[target_p]] IN
         IF mig.destination_p = me THEN ~myConnect[target_p]
         ELSE IF mig.furthest_ack_p = NULL THEN FALSE
         ELSE IF mig.furthest_ack_p = mig.destination_p THEN TRUE
         ELSE LET next_ack_p == FindNextAck(mig.destination_p, mig.furthest_ack_p) IN
              IF next_ack_p = NULL THEN FALSE
              ELSE SourcePassesNot(source_p, next_ack_p)

\* Mutant: step 1 advances mig->furthest_ack_p instead of a local cursor.
SkipOutputEffect_WritesAck(target_p, source_p) ==
    IF target_p = NULL \/ source_p = NULL THEN
        [migs |-> migs, cmig |-> cmig, servptr |-> servptr]
    ELSE IF cmig[target_p] = NULL THEN
        [migs |-> migs, cmig |-> cmig, servptr |-> servptr]
    ELSE
        [migs |-> [migs EXCEPT ![cmig[target_p]].furthest_ack_p =
                                    migs[cmig[target_p]].destination_p],
         cmig |-> cmig, servptr |-> servptr]

\* What a call of migrate_skip_output leaves in the records it was given:
\* the function assigns only its locals mig, next_ack_p and cursor_p.
SkipOutputEffect(target_p, source_p) ==
    [migs |-> migs, cmig |-> cmig, servptr |-> servptr]

\* --------------------------------------------- the output gate on its own
\* Every tree, every Migration record for the target client (or none), every
\* value of MyConnect.
GateInit ==
    /\ servptr \in TreesOf(GateNodes)
    /\ myConnect \in [{Target} -> BOOLEAN]
    /\ \/ /\ migs = <<>>
          /\ cmig = [c \in {Target} |-> NULL]
       \/ /\ \E d \in NodesOf(GateNodes), fa \in NodesOf(GateNodes) \cup {NULL} :
                migs = <<MigrationRec(Target, d, fa, 0, 1)>>
          /\ cmig = [c \in {Target} |-> 1]
    /\ ret = NoCall
    /\ args = NoCall
    /\ state = "INIT"
    /\ chan = <<>>
    /\ flipSeen = {}
    /\ acked = {}
    /\ msgs = <<>>

\* The routing layer asks the gate about a message from source_p.
CallSkipOutput(target_p, source_p) ==
    LET post == SkipOutputEffect(target_p, source_p) IN
    /\ ret' = <<migrate_skip_output(target_p, source_p)>>
    /\ args' = <<target_p, source_p>>
    /\ migs' = post.migs
    /\ cmig' = post.cmig
    /\ servptr' = post.servptr
    /\ UNCHANGED myConnect
    /\ UNCHANGED netVars

GateNext ==
    \E target_p \in {Target, NULL}, source_p \in NodesOf(GateNodes) \cup {NULL} :
        CallSkipOutput(target_p, source_p)

GateSpec == GateInit /\ [][GateNext]_vars

\* ------------------------------------------------------- the ack tracker
\* Mutant: an acknowledgement is applied whenever it comes from a direct-path
\* node, also when it regresses furthest_ack_p.
record_ack_NoOrderCheck(m, acking_node) ==
    IF m.furthest_ack_p = NULL THEN m
    ELSE IF acking_node \in PathToMe(m.destination_p)
    THEN [m EXCEPT !.furthest_ack_p = acking_node]
    ELSE m

\* record_ack(migration, acking_node): furthest_ack_p moves to acking_node
\* only if that node is on the direct path and strictly further from the
\* local server than the current furthest_ack_p; any other acknowledgement
\* is dropped.
record_ack(m, acking_node) ==
    IF m.furthest_ack_p = NULL THEN m
    ELSE IF /\ acking_node \in PathToMe(m.destination_p)
            /\ Depth(acking_node) > Depth(m.furthest_ack_p)
    THEN [m EXCEPT !.furthest_ack_p = acking_node]
    ELSE m

\* Mutant: OLD is satisfied as soon as any hop has acknowledged.
FullyFlipped_AnyAck(m) == m.furthest_ack_p \notin {NULL, me}

\* OLD is satisfied with the acks it has received: the acknowledgement cycle
\* has ended, furthest_ack_p equals destination_p.
FullyFlipped(m) == m.furthest_ack_p = m.destination_p

\* ------------------------------------------------ the tree of FIFO links
\* The servers linked to n.
Nbrs(n) ==
    { x \in DOMAIN servptr : x # n /\ (servptr[x] = n \/ servptr[n] = x) }

\* The directed links of the tree.
LinksOf(sp) ==
    { l \in (DOMAIN sp) \X (DOMAIN sp) :
         l[1] # l[2] /\ (sp[l[1]] = l[2] \/ sp[l[2]] = l[1]) }

Message(t, a) == [type |-> t, arg |-> a]

\* Mutant: a link delivers the newest message first.
SendTo_Prepend(ch, from, tos, msg) ==
    [l \in DOMAIN ch |->
        IF l[1] = from /\ l[2] \in tos THEN <<msg>> \o ch[l] ELSE ch[l]]

\* The links after server from has queued msg for every server of tos.
SendTo(ch, from, tos, msg) ==
    [l \in DOMAIN ch |->
        IF l[1] = from /\ l[2] \in tos THEN Append(ch[l], msg) ELSE ch[l]]

\* The links after the head of link l has been taken off.
Pop(ch, l) == [ch EXCEPT ![l] = Tail(ch[l])]

\* The bookkeeping of an ordinary message.
MsgRec(o) ==
    [origin |-> o, old |-> "pending", oldAcked |-> {},
     before |-> {}, after |-> {}]

\* Server n processes ordinary message i: whether it had seen the flip by
\* then is noted, and on OLD the output gate decides; the acknowledgements
\* OLD holds at that moment (its own flip included) are noted with it.
Processed(ms, i, n) ==
    LET r  == ms[i]
        r1 == IF n \in flipSeen
              THEN [r EXCEPT !.after = @ \cup {n}]
              ELSE [r EXCEPT !.before = @ \cup {n}]
        r2 == IF n = me
              THEN [r1 EXCEPT !.old =
                        IF migrate_skip_output(Target, r.origin)
                        THEN "skip" ELSE "produce",
                              !.oldAcked = acked \cup (flipSeen \cap {me})]
              ELSE r1
    IN [ms EXCEPT ![i] = r2]

\* ------------------------------------------------- the migration registry
\* The address the next Migration record is allocated at.
FreshAddr == CHOOSE a \in 1 .. (Cardinality(DOMAIN migs) + 1) : a \notin DOMAIN migs

\* Mutant: a colliding draw is accepted.
TokensFree_NoCheck(rt, ct) == TRUE

\* The tokens drawn collide with no active migration's.
TokensFree(rt, ct) ==
    \A a \in DOMAIN migs :
        migs[a].resume_token # rt /\ migs[a].confirm_token # ct

\* create(client, destination): the registry after a record with freshly
\* drawn tokens has been added; the flip has not been sent.
CreatedMigs(c, d, rt, ct) ==
    [a \in DOMAIN migs \cup {FreshAddr} |->
        IF a = FreshAddr THEN MigrationRec(c, d, NULL, rt, ct) ELSE migs[a]]

\* ------------------------------------------- the migration state machine
\* One client connected to OLD, no migration, nothing in flight.
Init ==
    /\ servptr \in TreesOf(NetNodes)
    /\ migs = <<>>
    /\ cmig = [c \in {Target} |-> NULL]
    /\ myConnect = [c \in {Target} |-> TRUE]
    /\ ret = NoCall
    /\ args = NoCall
    /\ state = "INIT"
    /\ chan = [l \in LinksOf(servptr) |-> <<>>]
    /\ flipSeen = {}
    /\ acked = {}
    /\ msgs = <<>>

\* INIT -> C-AWAIT-OK: OLD decides to migrate the client to d, registers the
\* migration and sends MIGRATE START.
StartMigration(d, rt, ct) ==
    /\ state = "INIT"
    /\ cmig[Target] = NULL
    /\ TokensFree(rt, ct)
    /\ migs' = CreatedMigs(Target, d, rt, ct)
    /\ cmig' = [cmig EXCEPT ![Target] = FreshAddr]
    /\ state' = "C_AWAIT_OK"
    /\ UNCHANGED <<servptr, myConnect, ret, args, chan, flipSeen, acked, msgs>>

\* C-AWAIT-OK -> HANDOFF: the client answers MIGRATE OK.
ClientOK ==
    /\ state = "C_AWAIT_OK"
    /\ state' = "HANDOFF"
    /\ UNCHANGED <<gateVars, chan, flipSeen, acked, msgs>>

\* HANDOFF -> N-FLIPPING: the handoff is complete, OLD broadcasts the flip;
\* furthest_ack_p begins at the local server.
SendFlip ==
    /\ state = "HANDOFF"
    /\ state' = "N_FLIPPING"
    /\ migs' = [migs EXCEPT ![cmig[Target]].furthest_ack_p = me]
    /\ flipSeen' = flipSeen \cup {me}
    /\ chan' = SendTo(chan, me, Nbrs(me), Message("FLIP", 0))
    /\ UNCHANGED <<servptr, cmig, myConnect, ret, args, acked, msgs>>

\* Mutant: a server acknowledges the flip but does not forward it.
RecvFlip_NoForward(a, b) ==
    /\ chan[<<a, b>>] # <<>>
    /\ Head(chan[<<a, b>>]).type = "FLIP"
    /\ flipSeen' = flipSeen \cup {b}
    /\ chan' = SendTo(Pop(chan, <<a, b>>), b, {a}, Message("FLIPACK", b))
    /\ UNCHANGED <<gateVars, state, acked, msgs>>

\* A server receives the flip from server a: it forwards the flip on its
\* other links and sends its acknowledgement back toward OLD.
RecvFlip(a, b) ==
    /\ chan[<<a, b>>] # <<>>
    /\ Head(chan[<<a, b>>]).type = "FLIP"
    /\ flipSeen' = flipSeen \cup {b}
    /\ chan' = SendTo(SendTo(Pop(chan, <<a, b>>), b, Nbrs(b) \ {a},
                             Message("FLIP", 0)),
                      b, {a}, Message("FLIPACK", b))
    /\ UNCHANGED <<gateVars, state, acked, msgs>>

\* A server between the acknowledging node and OLD relays the acknowledgement.
RelayFlipAck(a, b) ==
    /\ b # me
    /\ chan[<<a, b>>] # <<>>
    /\ Head(chan[<<a, b>>]).type = "FLIPACK"
    /\ chan' = SendTo(Pop(chan, <<a, b>>), b, {servptr[b]}, Head(chan[<<a, b>>]))
    /\ UNCHANGED <<gateVars, state, flipSeen, acked, msgs>>

\* OLD handles the acknowledgement of acking_node: the ack tracker records
\* it, and once the destination has acknowledged, N-FLIPPING ->
\* C-AWAIT-RESUME: OLD sends MIGRATE PROCEED and closes the client's
\* connection.
HandleFlipAck(acking_node) ==
    /\ acked' = acked \cup {acking_node}
    /\ IF cmig[Target] = NULL
       THEN UNCHANGED <<migs, state, myConnect>>
       ELSE LET m == record_ack(migs[cmig[Target]], acking_node) IN
            /\ migs' = [migs EXCEPT ![cmig[Target]] = m]
            /\ IF state = "N_FLIPPING" /\ FullyFlipped(m)
               THEN /\ state' = "C_AWAIT_RESUME"
                    /\ myConnect' = [myConnect EXCEPT ![Target] = FALSE]
               ELSE UNCHANGED <<state, myConnect>>
    /\ UNCHANGED <<servptr, cmig, ret, args, flipSeen, msgs>>

\* OLD receives an acknowledgement from its link to server a.
RecvFlipAck(a) ==
    /\ chan[<<a, me>>] # <<>>
    /\ Head(chan[<<a, me>>]).type = "FLIPACK"
    /\ chan' = Pop(chan, <<a, me>>)
    /\ HandleFlipAck(Head(chan[<<a, me>>]).arg)

\* What the gate call made while OLD processes message i leaves in ret, args
\* and the records.
GateCalled(source_p) ==
    LET post == SkipOutputEffect(Target, source_p) IN
    /\ ret' = <<migrate_skip_output(Target, source_p)>>
    /\ args' = <<Target, source_p>>
    /\ migs' = post.migs
    /\ cmig' = post.cmig
    /\ servptr' = post.servptr

\* Server o generates an ordinary message that concerns the client: it
\* processes the message itself and sends it on all its links.
EmitMsg(o) ==
    /\ Len(msgs) < MaxMsgs
    /\ LET i == Len(msgs) + 1 IN
       /\ msgs' = Processed(Append(msgs, MsgRec(o)), i, o)
       /\ chan' = SendTo(chan, o, Nbrs(o), Message("MSG", i))
    /\ IF o = me THEN GateCalled(o)
       ELSE UNCHANGED <<servptr, migs, cmig, ret, args>>
    /\ UNCHANGED <<myConnect, state, flipSeen, acked>>

\* A server receives an ordinary message from server a: it processes the
\* message and forwards it on its other links.
RecvMsg(a, b) ==
    /\ chan[<<a, b>>] # <<>>
    /\ Head(chan[<<a, b>>]).type = "MSG"
    /\ LET i == Head(chan[<<a, b>>]).arg IN
       /\ msgs' = Processed(msgs, i, b)
       /\ chan' = SendTo(Pop(chan, <<a, b>>), b, Nbrs(b) \ {a}, Message("MSG", i))
       /\ IF b = me THEN GateCalled(msgs[i].origin)
          ELSE UNCHANGED <<servptr, migs, cmig, ret, args>>
    /\ UNCHANGED <<myConnect, state, flipSeen, acked>>

\* Any state before DONE -> ABORTED: the client or a required link
\* disconnects; the Migration record is detached from the client and freed.
\* clientGone tells whether it was the client's connection that went away.
Abort(clientGone) ==
    /\ state \in {"C_AWAIT_OK", "HANDOFF", "N_FLIPPING", "C_AWAIT_RESUME"}
    /\ cmig[Target] # NULL
    /\ state' = "ABORTED"
    /\ migs' = [x \in DOMAIN migs \ {cmig[Target]} |-> migs[x]]
    /\ cmig' = [cmig EXCEPT ![Target] = NULL]
    /\ myConnect' = IF clientGone THEN [myConnect EXCEPT ![Target] = FALSE]
                    ELSE myConnect
    /\ UNCHANGED <<servptr, ret, args, chan, flipSeen, acked, msgs>>

Next ==
    \/ \E d \in NodesOf(NetNodes) \ {me} : StartMigration(d, 0, 1)
    \/ ClientOK
    \/ SendFlip
    \/ \E l \in DOMAIN chan : RecvFlip(l[1], l[2])
    \/ \E l \in DOMAIN chan : RelayFlipAck(l[1], l[2])
    \/ \E a \in Nbrs(me) : RecvFlipAck(a)
    \/ \E o \in NodesOf(NetNodes) : EmitMsg(o)
    \/ \E l \in DOMAIN chan : RecvMsg(l[1], l[2])
    \/ \E clientGone \in BOOLEAN : Abort(clientGone)

Spec == Init /\ [][Next]_vars

\* ------------------------------- the protocol without disconnects, fair
\* Some server takes the next message off one of its links.
Deliver ==
    \/ \E l \in DOMAIN chan : RecvFlip(l[1], l[2])
    \/ \E l \in DOMAIN chan : RelayFlipAck(l[1], l[2])
    \/ \E a \in Nbrs(me) : RecvFlipAck(a)
    \/ \E l \in DOMAIN chan : RecvMsg(l[1], l[2])

\* The steps of a run in which neither the client nor a link disconnects.
LiveNext ==
    \/ \E d \in NodesOf(NetNodes) \ {me} : StartMigration(d, 0, 1)
    \/ ClientOK
    \/ SendFlip
    \/ Deliver
    \/ \E o \in NodesOf(NetNodes) : EmitMsg(o)

\* Every server keeps reading its links: a message in flight is eventually
\* taken off its link.
LiveSpec == Init /\ [][LiveNext]_vars /\ WF_vars(Deliver)

\* ------------------------------------------- the ack tracker on its own
\* The migration right after the flip was sent; acknowledgements then come
\* in from any node in any order, and the gate is asked in between.
AckInit ==
    /\ servptr \in TreesOf(NetNodes)
    /\ \E d \in NodesOf(NetNodes) \ {me} :
          migs = <<MigrationRec(Target, d, me, 0, 1)>>
    /\ cmig = [c \in {Target} |-> 1]
    /\ myConnect = [c \in {Target} |-> TRUE]
    /\ ret = NoCall
    /\ args = NoCall
    /\ state = "N_FLIPPING"
    /\ chan = <<>>
    /\ flipSeen = {me}
    /\ acked = {}
    /\ msgs = <<>>

AckArrives(acking_node) ==
    /\ HandleFlipAck(acking_node)
    /\ UNCHANGED chan

AckNext ==
    \/ \E n \in NodesOf(NetNodes) : AckArrives(n)
    \/ \E source_p \in NodesOf(NetNodes) : CallSkipOutput(Target, source_p)

AckSpec == AckInit /\ [][AckNext]_vars

\* ------------------------------------------ the registry on its own
Clients == 1 .. NumClients

Tokens == 0 .. MaxToken

\* struct Migration *find_migration(uint32_t resume_token)
find_migration(resume_token) == NULL

RegInit ==
    /\ servptr \in TreesOf(RegNodes)
    /\ migs = <<>>
    /\ cmig = [c \in Clients |-> NULL]
    /\ myConnect = [c \in Clients |-> TRUE]
    /\ ret = NoCall
    /\ args = NoCall
    /\ state = "INIT"
    /\ chan = <<>>
    /\ flipSeen = {}
    /\ acked = {}
    /\ msgs = <<>>

\* create(client, destination): fails if the client is already migrating;
\* a draw that collides with an active migration's token is retried.
RegCreate(c, d, rt, ct) ==
    /\ cmig[c] = NULL
    /\ TokensFree(rt, ct)
    /\ migs' = CreatedMigs(c, d, rt, ct)
    /\ cmig' = [cmig EXCEPT ![c] = FreshAddr]
    /\ UNCHANGED <<servptr, myConnect, ret, args, netVars>>

\* remove(migration): the record is detached from its client and freed.
RegRemove(a) ==
    /\ a \in DOMAIN migs
    /\ migs' = [x \in DOMAIN migs \ {a} |-> migs[x]]
    /\ cmig' = [cmig EXCEPT ![migs[a].client_p] = NULL]
    /\ UNCHANGED <<servptr, myConnect, ret, args, netVars>>

\* A registering connection presents a resume token.
RegFind(resume_token) ==
    /\ ret' = <<find_migration(resume_token)>>
    /\ args' = <<resume_token>>
    /\ UNCHANGED <<servptr, migs, cmig, myConnect, netVars>>

\* void migration_resume(struct Client *client_p, struct Client *migrant_p):
\* what the call leaves in the registry and the clients. Both paths of the
\* function return without an assignment.
migration_resume(client_p, migrant_p) ==
    IF client_p = NULL \/ migrant_p = NULL THEN
        [migs |-> migs, cmig |-> cmig, myConnect |-> myConnect]
    ELSE IF cmig[client_p] = NULL THEN
        [migs |-> migs, cmig |-> cmig, myConnect |-> myConnect]
    ELSE
        [migs |-> migs, cmig |-> cmig, myConnect |-> myConnect]

\* A registering connection migrant_p presented the resume token of
\* client_p's migration: the migration is finalized.
RegResume(client_p, migrant_p) ==
    LET post == migration_resume(client_p, migrant_p) IN
    /\ migs' = post.migs
    /\ cmig' = post.cmig
    /\ myConnect' = post.myConnect
    /\ args' = <<client_p, migrant_p>>
    /\ UNCHANGED <<servptr, ret, netVars>>

RegNext ==
    \/ \E c \in Clients, d \in NodesOf(RegNodes), rt \in Tokens, ct \in Tokens :
          RegCreate(c, d, rt, ct)
    \/ \E a \in DOMAIN migs : RegRemove(a)
    \/ \E t \in Tokens : RegFind(t)
    \/ \E c \in Clients \cup {NULL}, g \in Clients \cup {NULL} :
          c # g /\ RegResume(c, g)

RegSpec == RegInit /\ [][RegNext]_vars

\* ------------------------------------------------- vocabulary of the claims
\* The first hop of the direct path: the child of the local server through
\* which the destination is reached.
FirstHop(d) == CHOOSE x \in PathToMe(d) \ {me} : servptr[x] = me

\* The direct-path node whose parent is fa: the next node expected to
\* acknowledge when furthest_ack is fa.
NextAckOf(d, fa) == CHOOSE x \in PathToMe(d) \ {me} : servptr[x] = fa

\* The direct-path node that sees a message from server o first.
RECURSIVE FirstOnPath(_, _)
FirstOnPath(o, d) ==
    IF o \in PathToMe(d) THEN o ELSE FirstOnPath(servptr[o], d)

\* A call has been made on the target client from a real source node.
Called == args # NoCall /\ args[1] = Target /\ args[2] # NULL

HasMig == cmig[Target] # NULL

TheMig == migs[cmig[Target]]

Outbound == HasMig /\ TheMig.destination_p # me

Inbound == HasMig /\ TheMig.destination_p = me

\* ------------------------------------------------------------------ claims
\* C2: a target client without an active migration is never skipped,
\* whatever the source node and the tree.
C2_NoMigrationIdentity ==
    (Called /\ ~HasMig) => ret = <<FALSE>>

C2_Witness ==
    /\ Called /\ ~HasMig /\ args[2] # me /\ servptr[args[2]] # me
    /\ ret = <<FALSE>>

\* C3: for an outbound migration whose furthest_ack is the destination, the
\* origin skips output for every source node, the local node and the nodes
\* behind the destination included.
C3_TerminalConvergence ==
    (Called /\ Outbound /\ TheMig.furthest_ack_p = TheMig.destination_p)
        => ret = <<TRUE>>

C3_Witness ==
    /\ Called /\ Outbound /\ TheMig.furthest_ack_p = TheMig.destination_p
    /\ args[2] # me /\ TheMig.destination_p \in PathToMe(args[2]) \ {args[2]}
    /\ ret = <<TRUE>>

\* C4 as stated: while furthest_ack equals the local node the origin
\* produces (returns false) for every source node.
C4_Original ==
    (Called /\ Outbound /\ TheMig.furthest_ack_p = me) => ret = <<FALSE>>

\* C4 amended: before the flip is sent (furthest_ack unset) the origin
\* produces for every source; once furthest_ack is the local node it
\* produces exactly for the sources whose parent walk to the local node
\* passes through the first hop of the direct path, and skips for the local
\* node itself and for sources on other branches of the local node.
C4_NoAckYet ==
    /\ (Called /\ Outbound /\ TheMig.furthest_ack_p = NULL) => ret = <<FALSE>>
    /\ (Called /\ Outbound /\ TheMig.furthest_ack_p = me)
          => (ret = <<FALSE>>
                 <=> FirstHop(TheMig.destination_p) \in PathToMe(args[2]))

\* The scenario of the claim: ME-A-B-DEST, source = ME, furthest_ack = ME.
C4_Witness ==
    /\ Called /\ Outbound /\ TheMig.furthest_ack_p = me
    /\ servptr[1] = 0 /\ servptr[2] = 1 /\ servptr[3] = 2
    /\ TheMig.destination_p = 3
    /\ args[2] = me
    /\ ret = <<TRUE>>

\* C5: on the destination of a migration the gate skips exactly when the
\* target client is not locally connected, whatever the source node and
\* whatever furthest_ack holds.
C5_InboundRule ==
    (Called /\ Inbound) => ret = <<~myConnect[Target]>>

C5_Witness ==
    /\ Called /\ Inbound /\ myConnect[Target]
    /\ TheMig.furthest_ack_p \notin {NULL, me} /\ args[2] # me
    /\ ret = <<FALSE>>

\* C7: a call of the gate changes no Migration record, no client's migration
\* reference and no parent link, so the gate answers the same for every
\* source after the call as before it.
C7_Purity ==
    [][ /\ migs' = migs
        /\ cmig' = cmig
        /\ servptr' = servptr
        /\ \A s \in DOMAIN servptr :
              migrate_skip_output(Target, s)' = migrate_skip_output(Target, s)
      ]_vars

C7_Witness ==
    /\ Called /\ Outbound
    /\ TheMig.furthest_ack_p \in PathToMe(TheMig.destination_p)
                                    \ {me, TheMig.destination_p}
    /\ ret = <<TRUE>>

\* C8: for an outbound migration whose furthest_ack is set but lies off the
\* direct path (a side branch, or behind the destination), the gate returns
\* false for every source node.
C8_InvariantViolationDefault ==
    (/\ Called /\ Outbound
     /\ TheMig.furthest_ack_p # NULL
     /\ TheMig.furthest_ack_p \notin PathToMe(TheMig.destination_p))
        => ret = <<FALSE>>

C8_Witness ==
    /\ Called /\ Outbound
    /\ TheMig.furthest_ack_p # NULL
    /\ TheMig.destination_p \in PathToMe(TheMig.furthest_ack_p)
                                    \ {TheMig.furthest_ack_p}
    /\ args[2] = me
    /\ ret = <<FALSE>>

\* C1: for every ordinary message, once OLD and NEW have both processed it,
\* OLD's gate said "produce" (returned false) exactly when NEW processed the
\* message before it had seen the flip: exactly one of the two produces.
C1_ExactlyOneProducer ==
    \A i \in DOMAIN msgs :
        (/\ HasMig
         /\ msgs[i].old # "pending"
         /\ TheMig.destination_p \in msgs[i].before \cup msgs[i].after)
            => (msgs[i].old = "produce"
                   <=> TheMig.destination_p \in msgs[i].before)

\* A message from a remote server that OLD skipped while the destination had
\* not acknowledged yet, and that NEW received after the flip.
C1_Witness ==
    /\ HasMig /\ state = "N_FLIPPING"
    /\ \E i \in DOMAIN msgs :
          /\ msgs[i].origin # me
          /\ msgs[i].old = "skip"
          /\ TheMig.destination_p \in msgs[i].after

\* C6: whatever acknowledgements arrive, furthest_ack stays on the direct
\* path, its distance from the local node never decreases, and an
\* acknowledgement from a node off the direct path or not strictly further
\* than furthest_ack leaves it unchanged.
C6_MonotonicAck ==
    [][ LET m  == migs[cmig[Target]]
            m2 == migs'[cmig'[Target]]
        IN /\ m2.furthest_ack_p \in PathToMe(m.destination_p)
           /\ Depth(m2.furthest_ack_p) >= Depth(m.furthest_ack_p)
           /\ \A n \in DOMAIN servptr :
                 (/\ AckArrives(n)
                  /\ \/ n \notin PathToMe(m.destination_p)
                     \/ Depth(n) <= Depth(m.furthest_ack_p))
                    => m2.furthest_ack_p = m.furthest_ack_p
      ]_vars

\* furthest_ack has advanced although an off-path acknowledgement and an
\* acknowledgement from the local node itself have been handled.
C6_Witness ==
    /\ TheMig.furthest_ack_p \in PathToMe(TheMig.destination_p) \ {me}
    /\ me \in acked
    /\ \E n \in acked : n \notin PathToMe(TheMig.destination_p)

\* C9: MIGRATE PROCEED has been sent (C-AWAIT-RESUME) only if furthest_ack
\* equals the destination, every direct-path node has processed the flip and
\* OLD has received the acknowledgement of each of them.
C9_ProceedOrdering ==
    state = "C_AWAIT_RESUME" =>
        /\ HasMig
        /\ TheMig.furthest_ack_p = TheMig.destination_p
        /\ PathToMe(TheMig.destination_p) \subseteq flipSeen
        /\ PathToMe(TheMig.destination_p) \ {me} \subseteq acked

\* PROCEED sent on a direct path with at least one intermediate node.
C9_Witness ==
    /\ state = "C_AWAIT_RESUME"
    /\ ~myConnect[Target]
    /\ Depth(TheMig.destination_p) >= 2

\* C10 as stated: find_migration returns every active migration for its
\* resume token, and NULL for a token of no active migration.
C10_LookupByResumeToken ==
    /\ \A a \in DOMAIN migs : find_migration(migs[a].resume_token) = a
    /\ \A t \in Tokens :
          (\A a \in DOMAIN migs : migs[a].resume_token # t)
              => find_migration(t) = NULL

\* C11 as stated: a resume of a client's migration removes the Migration
\* record, so no active migration carries its resume token afterwards and a
\* second resume with that token finds nothing.
C11_ResumeOneShot ==
    [][ \A c \in Clients, g \in Clients :
          (RegResume(c, g) /\ cmig[c] # NULL)
             => /\ cmig'[c] = NULL
                /\ \A a \in DOMAIN migs' :
                      migs'[a].resume_token # migs[cmig[c]].resume_token
                /\ find_migration(migs[cmig[c]].resume_token)' = NULL
      ]_vars

\* C13: no two active migrations share a resume_token and no two share a
\* confirm_token, after any sequence of create and remove operations.
C13_TokenUniqueness ==
    \A a \in DOMAIN migs, b \in DOMAIN migs :
        a # b => /\ migs[a].resume_token # migs[b].resume_token
                 /\ migs[a].confirm_token # migs[b].confirm_token

\* Two migrations are active at once, each client with its own record.
C13_Witness ==
    /\ Cardinality(DOMAIN migs) >= 2
    /\ \A c \in {1, 2} : cmig[c] # NULL /\ migs[cmig[c]].client_p = c
    /\ migs[cmig[1]].resume_token # migs[cmig[2]].resume_token

\* C12: once a migration has been aborted its record is gone, and the gate
\* returns false for the client for every source node: OLD serves it as an
\* ordinary client.
C12_AbortSafety ==
    state = "ABORTED" =>
        /\ cmig[Target] = NULL
        /\ DOMAIN migs = {}
        /\ \A s \in DOMAIN servptr : migrate_skip_output(Target, s) = FALSE

\* The migration was aborted after the flip had been sent, the client is
\* still connected, and OLD then produced output for a message of its own,
\* which it would have skipped while the migration lasted.
C12_Witness ==
    /\ state = "ABORTED" /\ myConnect[Target]
    /\ \E i \in DOMAIN msgs :
          /\ msgs[i].origin = me
          /\ me \in msgs[i].after
          /\ msgs[i].old = "produce"
    /\ ret = <<FALSE>>

\* C14: for an outbound migration whose furthest_ack is on the direct path
\* strictly before the destination, the gate returns false exactly when
\* next_ack, the direct-path child of furthest_ack, lies on the parent walk
\* from the source to the local node.
C14_GeneralCase ==
    (/\ Called /\ Outbound
     /\ TheMig.furthest_ack_p \in PathToMe(TheMig.destination_p)
                                     \ {TheMig.destination_p})
        => (ret = <<FALSE>>
               <=> NextAckOf(TheMig.destination_p, TheMig.furthest_ack_p)
                      \in PathToMe(args[2]))

\* ME-A-B-DEST with furthest_ack = A and the source on a branch hanging off
\* B: the gate returns false.
C14_Witness ==
    /\ Called /\ Outbound
    /\ servptr[1] = 0 /\ servptr[2] = 1 /\ servptr[3] = 2 /\ servptr[4] = 2
    /\ TheMig.destination_p = 3
    /\ TheMig.furthest_ack_p = 1
    /\ args[2] = 4
    /\ ret = <<FALSE>>

\* ME-A-B-DEST with furthest_ack = A and the source on a branch hanging
\* directly off ME: the gate returns true.
C14_WitnessOffMe ==
    /\ Called /\ Outbound
    /\ servptr[1] = 0 /\ servptr[2] = 1 /\ servptr[3] = 2 /\ servptr[4] = 0
    /\ TheMig.destination_p = 3
    /\ TheMig.furthest_ack_p = 1
    /\ args[2] = 4
    /\ ret = <<TRUE>>

\* C15: a message whose first direct-path node is OLD itself and that OLD
\* processes after it has sent the flip is skipped by OLD, and NEW never
\* processes it before the flip.
C15_FlipSentNothingAcked ==
    \A i \in DOMAIN msgs :
        (/\ HasMig
         /\ me \in msgs[i].after
         /\ FirstOnPath(msgs[i].origin, TheMig.destination_p) = me)
            => /\ msgs[i].old = "skip"
               /\ TheMig.destination_p \notin msgs[i].before

\* A message from a server on a branch hanging off OLD, skipped by OLD while
\* OLD held no acknowledgement at all, and received by NEW after the flip.
C15_Witness ==
    /\ HasMig /\ state = "N_FLIPPING"
    /\ \E i \in DOMAIN msgs :
          /\ msgs[i].origin # me
          /\ FirstOnPath(msgs[i].origin, TheMig.destination_p) = me
          /\ msgs[i].old = "skip"
          /\ msgs[i].oldAcked = {me}
          /\ TheMig.destination_p \in msgs[i].after

\* C16: for every message, with P its first direct-path node, OLD processed
\* the message before it held P's acknowledgement exactly when NEW processed
\* the message before the flip.
C16_OrderingLemma ==
    \A i \in DOMAIN msgs :
        (/\ HasMig
         /\ msgs[i].old # "pending"
         /\ TheMig.destination_p \in msgs[i].before \cup msgs[i].after)
            => (FirstOnPath(msgs[i].origin, TheMig.destination_p)
                       \notin msgs[i].oldAcked
                   <=> TheMig.destination_p \in msgs[i].before)

\* A message that entered the direct path at an intermediate node, reached
\* OLD after that node's acknowledgement and NEW after the flip, while OLD
\* did not yet hold the destination's acknowledgement.
C16_Witness ==
    /\ HasMig
    /\ \E i \in DOMAIN msgs :
          LET P == FirstOnPath(msgs[i].origin, TheMig.destination_p) IN
          /\ P \notin {me, TheMig.destination_p}
          /\ P \in msgs[i].oldAcked
          /\ TheMig.destination_p \notin msgs[i].oldAcked
          /\ TheMig.destination_p \in msgs[i].after

\* C17 as stated: the acknowledgements OLD has received come from exactly
\* the direct-path nodes up to and including furthest_ack.
C17_Original ==
    (HasMig /\ TheMig.furthest_ack_p # NULL) =>
        acked = { n \in PathToMe(TheMig.destination_p) \ {me} :
                     Depth(n) <= Depth(TheMig.furthest_ack_p) }

\* C17 amended: among the direct-path nodes, OLD has received the
\* acknowledgement of exactly those up to and including furthest_ack, and
\* the gate answers for every source as the acknowledgement status of the
\* source's first direct-path node does.
C17_FurthestAckSuffices ==
    (HasMig /\ TheMig.furthest_ack_p # NULL) =>
        /\ acked \cap PathToMe(TheMig.destination_p) =
              { n \in PathToMe(TheMig.destination_p) \ {me} :
                   Depth(n) <= Depth(TheMig.furthest_ack_p) }
        /\ \A s \in DOMAIN servptr :
              migrate_skip_output(Target, s)
                 <=> FirstOnPath(s, TheMig.destination_p) \in acked \cup {me}

\* An intermediate node has acknowledged, the destination has not, and the
\* gate skips for one source while it produces for another.
C17_Witness ==
    /\ HasMig
    /\ TheMig.furthest_ack_p \notin {NULL, me, TheMig.destination_p}
    /\ TheMig.furthest_ack_p \in acked
    /\ \E s1 \in DOMAIN servptr, s2 \in DOMAIN servptr :
          /\ s1 # me
          /\ migrate_skip_output(Target, s1)
          /\ ~migrate_skip_output(Target, s2)

\* C18: while the migration lasts, a step never takes the gate from true
\* back to false for any source node.
C18_GateMonotone ==
    [][ (cmig[Target] # NULL /\ cmig'[Target] # NULL) =>
           \A s \in DOMAIN servptr :
              migrate_skip_output(Target, s) => migrate_skip_output(Target, s)'
      ]_vars

\* OLD has skipped a message of an intermediate node that had acknowledged,
\* while the destination had not.
C18_Witness ==
    /\ HasMig /\ state = "N_FLIPPING"
    /\ TheMig.furthest_ack_p \notin {NULL, me, TheMig.destination_p}
    /\ args = <<Target, TheMig.furthest_ack_p>>
    /\ ret = <<TRUE>>

\* C19: on every tree, for every destination, furthest_ack and source, the
\* walk of step 1 ends within depth(destination) + 1 nodes and the walk of
\* step 2 within depth(source) rounds, whatever node it looks for; from the
\* local node step 2 makes no round at all.
C19_WalksTerminate ==
    (Called /\ HasMig) =>
        LET n  == Cardinality(DOMAIN servptr)
            s1 == Step1Iterations(TheMig.destination_p,
                                  TheMig.furthest_ack_p, n)
        IN /\ s1 # NULL
           /\ s1 <= Depth(TheMig.destination_p) + 1
           /\ \A x \in DOMAIN servptr \cup {NULL} :
                 LET s2 == Step2Iterations(args[2], x, n) IN
                 /\ s2 # NULL
                 /\ s2 <= Depth(args[2])
                 /\ args[2] = me => s2 = 0

\* furthest_ack lies off the direct path, so step 1 walks from a destination
\* three hops away all the way to the local node, and the source three hops
\* away is walked to the local node too.
C19_Witness ==
    /\ Called /\ Outbound
    /\ Depth(TheMig.destination_p) = 3
    /\ TheMig.furthest_ack_p \notin PathToMe(TheMig.destination_p) \cup {NULL}
    /\ Step1Iterations(TheMig.destination_p, TheMig.furthest_ack_p,
                       Cardinality(DOMAIN servptr)) = 4
    /\ Step2Iterations(args[2], NULL, Cardinality(DOMAIN servptr)) = 3

\* C20: with every message in flight eventually delivered and no
\* disconnect, a migration in N-FLIPPING eventually has furthest_ack equal
\* to the destination and is in C-AWAIT-RESUME.
C20_FlipCompletes ==
    (state = "N_FLIPPING")
        ~> (/\ state = "C_AWAIT_RESUME"
            /\ TheMig.furthest_ack_p = TheMig.destination_p)

\* The flip has completed over a direct path with an intermediate node and
\* nothing is left in flight.
C20_Witness ==
    /\ state = "C_AWAIT_RESUME"
    /\ TheMig.furthest_ack_p = TheMig.destination_p
    /\ Depth(TheMig.destination_p) >= 2
    /\ \A l \in DOMAIN chan : chan[l] = <<>>
    /\ flipSeen = DOMAIN servptr

====
